---- MODULE Spec2Model ----
(***************************************************************************)
(* Model of the logging decorators of recipes.py:                          *)
(*   log_arguments, log_on_behalf_of_func and ExecutionTimeLogger.         *)
(*                                                                         *)
(* A function object is a record holding the attributes the decorators     *)
(* read (__name__, __module__, __code__.co_argcount, __code__.co_varnames, *)
(* __defaults__, __kwdefaults__) together with its closure cells.  Dicts   *)
(* are TLA+ functions over string keys, tuples are sequences, every Python *)
(* value is a string atom.  A call of the decorated object is one action:   *)
(* the decorators are synchronous, so the call is modelled by the sequence  *)
(* of events it produces (records handed to the logging sink, and the      *)
(* execution of the target's body) and by its outcome.                     *)
(***************************************************************************)
EXTENDS Naturals, Sequences, FiniteSets, TLC

VARIABLES
    debug,       \* the interpreter's __debug__ flag (FALSE under "optimize")
    func,        \* the target function, as written by the user
    decorated,   \* the object the function's name is bound to after decoration
    atWrapTime,  \* history: `decorated` as it was when the last decorator returned
    lastWrap,    \* history: input and output of the last log_arguments(...) call
    call,        \* the inputs of the last call of `decorated`
    events,      \* what the last call did, in order: emissions and body execution
    outcome,     \* how the last call ended: return value or raised error
    log,         \* every record handed to the logging sink so far (origin fields)
    calls,       \* number of calls made so far
    raised       \* number of those calls that ended by raising

vars == <<debug, func, decorated, atWrapTime, lastWrap, call, events, outcome,
          log, calls, raised>>

----------------------------------------------------------------------------
(* Bounds of the model *)

MaxParams == 2   \* positional parameters of a target function: 0..MaxParams
MaxDepth  == 2   \* decorators stacked on one function
MaxCalls  == 2   \* calls of the decorated function

----------------------------------------------------------------------------
(* Python values *)

None == "None"

\* names of positional parameters, in declaration order
ArgNamePool == <<"a", "b", "c", "d", "e", "f">>
\* the declared default of the parameter at each position
DefaultPool == <<"Da", "Db", "Dc", "Dd", "De", "Df">>
KwOnlyName   == "k"      \* the keyword-only parameter, when declared
KwOnlyDefault == "Dk"
ExtraKeyword == "x"      \* a keyword that is in no signature
PosVals == {"p"}         \* values passed positionally
KwVals  == {"kw"}        \* values passed by keyword
ReturnValue == "result"

EmptyDict == [n \in {} |-> None]

\* dict.update(other)
update(d, other) ==
    [n \in DOMAIN d \cup DOMAIN other |-> IF n \in DOMAIN other THEN other[n] ELSE d[n]]

\* the names of a tuple of names
Names(seq) == {seq[i] : i \in DOMAIN seq}

----------------------------------------------------------------------------
(* Target functions: def target(<N positionals, last K with defaults> <tail>) *)

Tails == {"none", "kwonly_default", "kwonly_required", "star"}

\* tail "kwonly_default":  def target(..., *, k=Dk)
\* tail "kwonly_required": def target(..., *, k)
\* tail "star":            def target(..., *args, **kwargs)
Function(N, K, tail) ==
    [kind       |-> "function",
     name       |-> "target",
     module     |-> "app",
     argcount   |-> N,
     kwonly     |-> IF tail \in {"kwonly_default", "kwonly_required"}
                    THEN <<KwOnlyName>> ELSE <<>>,
     varnames   |-> SubSeq(ArgNamePool, 1, N)
                    \o (IF tail \in {"kwonly_default", "kwonly_required"}
                        THEN <<KwOnlyName>> ELSE <<>>)
                    \o (IF tail = "star" THEN <<"args", "kwargs">> ELSE <<>>),
     defaults   |-> SubSeq(DefaultPool, N - K + 1, N),
     kwdefaults |-> IF tail = "kwonly_default"
                    THEN [n \in {KwOnlyName} |-> KwOnlyDefault] ELSE EmptyDict,
     varargs    |-> tail = "star",
     varkw      |-> tail = "star"]

Funcs ==
    {Function(nk[1], nk[2], tail) :
        nk \in {x \in (0..MaxParams) \X (0..MaxParams) : x[2] <= x[1]},
        tail \in Tails}

\* the two functions of the documented scenarios:
\*   def greet(name, greeting="Hi")  and  def add(a, b=2, *, c=3)
TimedFuncs == {Function(2, 1, "none"), Function(2, 1, "kwonly_default")}

\* the declared default of a parameter of a plain function, for stating claims:
\* Python binds __defaults__ to the LAST len(__defaults__) positional parameters
HasDeclaredDefault(f, n) ==
    \/ n \in DOMAIN f.kwdefaults
    \/ \E i \in 1..f.argcount :
          /\ f.varnames[i] = n
          /\ i > f.argcount - Len(f.defaults)

DeclaredDefault(f, n) ==
    IF n \in DOMAIN f.kwdefaults THEN f.kwdefaults[n]
    ELSE LET i == CHOOSE j \in 1..f.argcount : f.varnames[j] = n
         IN  f.defaults[i - (f.argcount - Len(f.defaults))]

\* every parameter name the signature declares (positional and keyword-only)
DeclaredNames(f) == Names(SubSeq(f.varnames, 1, f.argcount)) \cup Names(f.kwonly)

----------------------------------------------------------------------------
(* functools.wraps: the wrapper takes over __name__ and __module__ of the     *)
(* function it wraps; its __code__, __defaults__ and __kwdefaults__ stay its  *)
(* own.                                                                       *)

\* a wrapper defined without @wraps keeps its own name and module
wraps_omitted(f, w) == w

wraps(f, w) == [w EXCEPT !.name = f.name, !.module = f.module]

----------------------------------------------------------------------------
(* log_on_behalf_of_func: the records handed to proj_logger.handle *)

LogRecord(name, level, msg, args, funcName) ==
    [type |-> "emit", name |-> name, funcName |-> funcName,
     level |-> level, msg |-> msg, args |-> args]

log_on_behalf_of_func(f, level, message, message_args) ==
    << LogRecord(f.module, level, message, message_args, f.name) >>

----------------------------------------------------------------------------
(* log_arguments *)

\* argnames = func.__code__.co_varnames[:total_args]
argnames_of(f) == SubSeq(f.varnames, 1, f.argcount)

\* names_of_positional_w_defaults =
\*     argnames[len(positional_default_values):] if positional_default_values else ()
names_of_positional_w_defaults(argnames, positional_default_values) ==
    IF positional_default_values # <<>>
    THEN SubSeq(argnames, Len(positional_default_values) + 1, Len(argnames))
    ELSE <<>>

\* dict(zip(names, values)): pairs up to the shorter of the two
zip(names, values) ==
    LET n == IF Len(names) < Len(values) THEN Len(names) ELSE Len(values)
    IN  [x \in {names[i] : i \in 1..n} |->
            values[CHOOSE i \in 1..n : names[i] = x]]

\* dict.fromkeys(argnames)
fromkeys(argnames) == [n \in Names(argnames) |-> None]

\* the seeded defaults mapping built at wrap time
default_args_state_of(f) ==
    LET argnames == argnames_of(f)
        positional_default_values == f.defaults
        kwonly_defaults == f.kwdefaults
        seeded == update(fromkeys(argnames),
                         zip(names_of_positional_w_defaults(argnames,
                                                            positional_default_values),
                             positional_default_values))
    IN  IF kwonly_defaults # EmptyDict THEN update(seeded, kwonly_defaults) ELSE seeded

\* the closure `wrapper` before functools.wraps is applied to it
wrapper_object(f) ==
    [kind       |-> "wrapper",
     name       |-> "wrapper",
     module     |-> "recipes",
     argcount   |-> 0,
     kwonly     |-> <<>>,
     varnames   |-> <<"args", "kwargs", "arguments", "pos", "value">>,
     defaults   |-> <<>>,
     kwdefaults |-> EmptyDict,
     varargs    |-> TRUE,
     varkw      |-> TRUE,
     func       |-> f,
     argnames   |-> argnames_of(f),
     default_args_state |-> default_args_state_of(f)]

\* log_arguments without the `if not __debug__` shortcut
log_arguments_always(f) == wraps(f, wrapper_object(f))

log_arguments(f) ==
    IF ~debug THEN f ELSE wraps(f, wrapper_object(f))

\* arguments = dict(default_args_state); positional overlay; keyword overlay.
\* Defined when every position of args has a name in argnames.
positional_overlay(arguments, argnames, args) ==
    [n \in DOMAIN arguments |->
        IF \E pos \in DOMAIN args : argnames[pos] = n
        THEN args[CHOOSE pos \in DOMAIN args : argnames[pos] = n]
        ELSE arguments[n]]

arguments_of(default_args_state, argnames, args, kwargs) ==
    update(positional_overlay(default_args_state, argnames, args), kwargs)

\* `arguments = default_args_state` without the copy: the overlays of a call
\* are written into the closure cell itself
default_args_state_aliased(default_args_state, arguments) == arguments

\* the closure cell default_args_state after a call: the call works on a copy
default_args_state_after(default_args_state, arguments) == default_args_state

----------------------------------------------------------------------------
(* ExecutionTimeLogger *)

KEY_SECONDS   == "secs"
KEY_FUNC_NAME == "func"
\* the templates after __init__ has rewritten {secs} to %(secs)s
pre_msg  == "Started"
post_msg == "Finished, time elapsed: %(secs)s"
Levels == {"INFO"}      \* the level the timing decorator is configured with
exec_time == "timedelta"   \* timedelta(seconds=time.time() - start_time)

\* the closure `inner` before functools.wraps is applied to it
inner_object(f, level) ==
    [kind       |-> "inner",
     name       |-> "inner",
     module     |-> "recipes",
     argcount   |-> 0,
     kwonly     |-> <<>>,
     varnames   |-> <<"args", "kwargs", "func_name", "start_time", "result", "exec_time">>,
     defaults   |-> <<>>,
     kwdefaults |-> EmptyDict,
     varargs    |-> TRUE,
     varkw      |-> TRUE,
     func       |-> f,
     level      |-> level]

ExecutionTimeLogger(level, f) == wraps(f, inner_object(f, level))

----------------------------------------------------------------------------
(* Calls.  The result of a call is                                            *)
(*   events  : what happened, in order                                        *)
(*   outcome : [kind |-> "return" | "raise", value |-> ...]                   *)
(*   self    : the called object afterwards (its closure cells)               *)

Return(v) == [kind |-> "return", value |-> v]
Raise(e)  == [kind |-> "raise",  value |-> e]
NoOutcome == [kind |-> "none",   value |-> None]

Bodies == {Return(ReturnValue), Raise("BodyError")}

\* func(*args, **kwargs) on a plain function: Python binds the arguments to the
\* signature and raises TypeError when they do not fit
Accepts(f, args, kwargs) ==
    LET positional == SubSeq(f.varnames, 1, f.argcount)
        bound == {positional[i] : i \in 1..(IF Len(args) < f.argcount
                                            THEN Len(args) ELSE f.argcount)}
    IN  /\ Len(args) <= f.argcount \/ f.varargs
        /\ \A n \in DOMAIN kwargs : n \in DeclaredNames(f) \/ f.varkw
        /\ bound \cap DOMAIN kwargs = {}
        /\ \A n \in DeclaredNames(f) :
              n \in bound \/ n \in DOMAIN kwargs \/ HasDeclaredDefault(f, n)

\* the execution of the target's body
BodyEvent(f, args, kwargs) ==
    [type |-> "body", name |-> f.module, funcName |-> f.name,
     level |-> "-", msg |-> "-", args |-> [args |-> args, kwargs |-> kwargs]]

function_call(f, args, kwargs, body) ==
    IF Accepts(f, args, kwargs)
    THEN [events |-> <<BodyEvent(f, args, kwargs)>>, outcome |-> body, self |-> f]
    ELSE [events |-> <<>>, outcome |-> Raise("TypeError"), self |-> f]

\* log_arguments.wrapper(*args, **kwargs); r is the result of func(*args, **kwargs)
wrapper(w, args, kwargs, r) ==
    IF Len(args) > Len(w.argnames)
    THEN \* arguments[argnames[pos]]: tuple index out of range
         [events |-> <<>>, outcome |-> Raise("IndexError"), self |-> w]
    ELSE LET arguments == arguments_of(w.default_args_state, w.argnames, args, kwargs)
         IN  [events  |-> log_on_behalf_of_func(w.func, "DEBUG", "Called with %s",
                                                <<arguments>>)
                          \o r.events,
              outcome |-> r.outcome,
              self    |-> [w EXCEPT !.func = r.self,
                                    !.default_args_state =
                                        default_args_state_after(@, arguments)]]

\* the start message of `inner`
started(w) ==
    log_on_behalf_of_func(w.func, w.level, pre_msg,
                          [n \in {KEY_FUNC_NAME} |-> w.func.name])

\* the finish message of `inner`
finished(w) ==
    log_on_behalf_of_func(w.func, w.level, post_msg,
        [n \in {KEY_FUNC_NAME, KEY_SECONDS} |->
            IF n = KEY_FUNC_NAME THEN w.func.name ELSE exec_time])

\* `inner` with the finish message in a `finally:` clause
inner_finally(w, args, kwargs, r) ==
    [events  |-> started(w) \o r.events \o finished(w),
     outcome |-> r.outcome,
     self    |-> [w EXCEPT !.func = r.self]]

\* `inner` that logs the finish message before it calls the function
inner_early_finish(w, args, kwargs, r) ==
    [events  |-> started(w) \o finished(w) \o r.events,
     outcome |-> r.outcome,
     self    |-> [w EXCEPT !.func = r.self]]

\* ExecutionTimeLogger.__call__.decorator.inner(*args, **kwargs);
\* r is the result of func(*args, **kwargs)
inner(w, args, kwargs, r) ==
    IF r.outcome.kind = "raise"
    THEN \* the exception leaves inner at `result = func(*args, **kwargs)`
         [events  |-> started(w) \o r.events,
          outcome |-> r.outcome,
          self    |-> [w EXCEPT !.func = r.self]]
    ELSE [events  |-> started(w) \o r.events \o finished(w),
          outcome |-> r.outcome,
          self    |-> [w EXCEPT !.func = r.self]]

RECURSIVE Invoke(_, _, _, _)
Invoke(f, args, kwargs, body) ==
    CASE f.kind = "function" -> function_call(f, args, kwargs, body)
      [] f.kind = "wrapper"  -> wrapper(f, args, kwargs, Invoke(f.func, args, kwargs, body))
      [] f.kind = "inner"    -> inner(f, args, kwargs, Invoke(f.func, args, kwargs, body))

\* number of decorator closures around the target
RECURSIVE Depth(_)
Depth(f) == IF f.kind = "function" THEN 0 ELSE 1 + Depth(f.func)

\* number of closures of one kind around the target
RECURSIVE Layers(_, _)
Layers(f, kind) ==
    IF f.kind = "function" THEN 0
    ELSE (IF f.kind = kind THEN 1 ELSE 0) + Layers(f.func, kind)

----------------------------------------------------------------------------
(* The inputs of a call, relative to the target's signature *)

PositionalInputs(f) == UNION {[1..n -> PosVals] : n \in 0..(f.argcount + 1)}

KeywordInputs(f) ==
    UNION {[S -> KwVals] : S \in SUBSET (DeclaredNames(f) \cup {ExtraKeyword})}

\* the origin fields of a record, as the sink sees them
Origin(e, n) ==
    [call |-> n, name |-> e.name, funcName |-> e.funcName,
     level |-> e.level, msg |-> e.msg]

Emitted(evs) == SelectSeq(evs, LAMBDA e : e.type = "emit")

----------------------------------------------------------------------------
(* State machine *)

InitWith(fs) ==
    /\ debug \in BOOLEAN
    /\ func \in fs
    /\ decorated = func
    /\ atWrapTime = func
    /\ lastWrap = [in |-> func, out |-> func, applied |-> FALSE]
    /\ call = [args |-> <<>>, kwargs |-> EmptyDict, body |-> NoOutcome]
    /\ events = <<>>
    /\ outcome = NoOutcome
    /\ log = <<>>
    /\ calls = 0
    /\ raised = 0

Init == InitWith(Funcs)

InitTimed == InitWith(TimedFuncs)

\* @log_arguments, at definition time
Decorate_log_arguments ==
    /\ calls = 0
    /\ Depth(decorated) < MaxDepth
    /\ decorated' = log_arguments(decorated)
    /\ atWrapTime' = decorated'
    /\ lastWrap' = [in |-> decorated, out |-> decorated', applied |-> TRUE]
    /\ UNCHANGED <<debug, func, call, events, outcome, log, calls, raised>>

\* @ExecutionTimeLogger()(level), at definition time
Decorate_ExecutionTimeLogger ==
    /\ calls = 0
    /\ Depth(decorated) < MaxDepth
    /\ \E level \in Levels :
          decorated' = ExecutionTimeLogger(level, decorated)
    /\ atWrapTime' = decorated'
    /\ UNCHANGED <<debug, func, lastWrap, call, events, outcome, log, calls, raised>>

\* decorated(*args, **kwargs)
Call ==
    /\ calls < MaxCalls
    /\ \E args \in PositionalInputs(func), kwargs \in KeywordInputs(func),
          body \in Bodies :
          LET r == Invoke(decorated, args, kwargs, body)
          IN  /\ call' = [args |-> args, kwargs |-> kwargs, body |-> body]
              /\ events' = r.events
              /\ outcome' = r.outcome
              /\ decorated' = r.self
              /\ log' = log \o [i \in 1..Len(Emitted(r.events)) |->
                                   Origin(Emitted(r.events)[i], calls + 1)]
              /\ raised' = raised + (IF r.outcome.kind = "raise" THEN 1 ELSE 0)
    /\ calls' = calls + 1
    /\ UNCHANGED <<debug, func, atWrapTime, lastWrap>>

Next == Decorate_log_arguments \/ Call

NextTimed == Decorate_log_arguments \/ Decorate_ExecutionTimeLogger \/ Call

Spec == Init /\ [][Next]_vars

SpecTimed == InitTimed /\ [][NextTimed]_vars

----------------------------------------------------------------------------
(* Claims *)

\* log_arguments applied once, directly to the target, in debug mode
WrappedOnce == decorated.kind = "wrapper" /\ decorated.func = func

\* ExecutionTimeLogger applied once, directly to the target
TimedOnce == decorated.kind = "inner" /\ decorated.func = func

\* the last call of a WrappedOnce function got as far as its log record
Reconstructed == calls > 0 /\ events # <<>> /\ events[1].type = "emit"

\* the argument mapping the last call logged
Logged == events[1].args[1]

\* the positional parameter names, and the positions the last call supplied
Positional == SubSeq(func.varnames, 1, func.argcount)
Supplied(i) == i <= Len(call.args)

Count(seq, msg) == Len(SelectSeq(seq, LAMBDA e : e.msg = msg))

\* C1: a call with fewer positional arguments than parameters and no keywords
\* logs, for every omitted trailing parameter that has a default, its own
\* declared default.
C1_OmittedParametersShowOwnDefault ==
    (WrappedOnce /\ calls > 0 /\ call.kwargs = EmptyDict
                 /\ Len(call.args) < func.argcount)
    => /\ Reconstructed
       /\ \A i \in (Len(call.args) + 1)..func.argcount :
             HasDeclaredDefault(func, Positional[i])
             => Logged[Positional[i]] = DeclaredDefault(func, Positional[i])

\* C2: the keys of the reconstructed mapping are exactly the declared parameter
\* names (keyword-only ones included) plus the keywords the call passed.
C2_KeysAreDeclaredNamesPlusKeywords ==
    (WrappedOnce /\ Reconstructed)
    => DOMAIN Logged = DeclaredNames(func) \cup DOMAIN call.kwargs

\* C3: calling the wrapped function ends as calling the original with the same
\* arguments ends: the same return value or the same raised error.  Stated here
\* for the calls the original accepts, where the wrapper has no error to add.
C3_WrapperIsTransparent ==
    (WrappedOnce /\ calls > 0 /\ Accepts(func, call.args, call.kwargs))
    => outcome = function_call(func, call.args, call.kwargs, call.body).outcome

\* C4: the value logged for a parameter is the keyword value if the call passed
\* the name as a keyword, else the positional value if the call supplied that
\* position, else the declared default, else the null placeholder.
C4_KeywordThenPositionalThenDefault ==
    (WrappedOnce /\ Reconstructed)
    => \A i \in 1..func.argcount :
          Logged[Positional[i]] =
              IF Positional[i] \in DOMAIN call.kwargs THEN call.kwargs[Positional[i]]
              ELSE IF Supplied(i) THEN call.args[i]
              ELSE IF HasDeclaredDefault(func, Positional[i])
                   THEN DeclaredDefault(func, Positional[i])
              ELSE None

C7_DisabledWhenOptimized ==
    /\ lastWrap.applied
       => IF ~debug
          THEN lastWrap.out = lastWrap.in
          ELSE /\ lastWrap.out # lastWrap.in
               /\ lastWrap.out.kind = "wrapper"
               /\ lastWrap.out.func = lastWrap.in
    /\ ~debug => /\ Layers(decorated, "wrapper") = 0
                 /\ Count(log, "Called with %s") = 0

\* C7 is reached: optimized mode, log_arguments applied, the function called
C7_Witness ==
    ~debug /\ lastWrap.applied /\ decorated = func /\ calls > 0
           /\ outcome = Return(ReturnValue)

C9_DescriptorFrozenAtWrapTime ==
    /\ decorated = atWrapTime
    /\ (decorated.kind = "wrapper" /\ Reconstructed)
       => /\ DOMAIN Logged = DOMAIN atWrapTime.default_args_state
                                 \cup DOMAIN call.kwargs
          /\ \A n \in DOMAIN atWrapTime.default_args_state :
                (/\ n \notin DOMAIN call.kwargs
                 /\ ~\E pos \in DOMAIN call.args : atWrapTime.argnames[pos] = n)
                => Logged[n] = atWrapTime.default_args_state[n]

\* C9 is reached: a second call, with no arguments, of a wrapped function
\* whose first call was logged too
C9_Witness ==
    /\ WrappedOnce /\ calls = 2 /\ Reconstructed /\ Len(log) = 2
    /\ call.args = <<>> /\ call.kwargs = EmptyDict

\* C10: every call of a wrapped function emits exactly one record, at debug
\* level, before the function runs, so n calls leave n records in call order.
\* Stated here for the calls whose arguments the function accepts.
C10_OneDebugRecordPerCall ==
    (WrappedOnce /\ calls > 0 /\ Accepts(func, call.args, call.kwargs))
    => /\ Len(Emitted(events)) = 1
       /\ events[1].type = "emit" /\ events[1].level = "DEBUG"
       /\ Len(log) = calls
       /\ \A i \in DOMAIN log : log[i].call = i

====
